---- MODULE Spec2Model ----
(***************************************************************************)
(* Model of build_ru_verbs_1000_allinone.py: candidate generation          *)
(* (build_candidate_forms), phrase templating (make_phrases), row          *)
(* selection and CSV writing (main) and deck building with optional audio  *)
(* (build_anki).                                                           *)
(*                                                                         *)
(* Strings are sequences of tokens, so that concatenation (prefix + verb,  *)
(* gloss + " (prefixed)", template.format) is sequence concatenation.      *)
(* The seed tables BASE_VERBS, CURATED_DERIVS and PREFIXES are module      *)
(* globals of the script; here they are drawn in Init from small pools so  *)
(* that collisions between base, curated and prefixed forms occur.         *)
(* The target row count (the literal 1000 of main) is TARGET.              *)
(***************************************************************************)
EXTENDS Integers, Sequences, FiniteSets, TLC

\* ------------------------------------------------------------------ bounds
MaxBase == 2
MaxCurated == 2
MaxPrefixes == 2
MaxN == 6
MaxIter == 3

\* ------------------------------------------------------------ seed pools
BasePool ==
  { << <<"a", "-">>, <<"a">>, <<"to a">> >>,
    << <<"b", "a", "-">>, <<"b", "a">>, <<"to ba">> >>,
    << <<"c", "-">>, <<"c">>, <<"to c">> >> }

CuratedPool ==
  { << <<"a">>, << << <<"b", "a">>, <<"to ba (pfv)">> >>,
                   << <<"a", "a">>, <<"to aa (pfv)">> >> >> >>,
    << <<"c">>, << << <<"c", "a">>, <<"to ca (pfv)">> >> >> >>,
    << <<"a", "b", "c", "a">>, << << <<"a", "a">>, <<"to aa again">> >>,
                                  << <<"c", "b">>, <<"to cb (pfv)">> >> >> >> }

PrefixPool == { <<>>, <<"b">> }

\* sequences without repetition of at most n elements of S
DistinctSeqs(S, n) ==
  UNION { { s \in [1..m -> S] : \A x, y \in 1..m : x # y => s[x] # s[y] } : m \in 0..n }

AudioModes == {"gtts", "espeak", "none"}
\* what a run in the given audio mode imports or starts
RequiredBy(mode) ==
  {"pandas", "genanki"} \cup
  (IF mode = "gtts" THEN {"gtts"} ELSE IF mode = "espeak" THEN {"espeak-ng"} ELSE {})

\* ---------------------------------------------------------------- tables
\* <<source prefix, source suffix, gloss prefix, gloss suffix>> around the
\* {inf} slot; the Russian text is transliterated
PHRASE_TEMPLATES ==
  << << <<"Ya khochu ">>, <<".">>, <<"I want ">>, <<".">> >>,
     << <<"On mozhet ">>, <<".">>, <<"He can ">>, <<".">> >>,
     << <<"My budem ">>, <<" zavtra.">>, <<"We will ">>, <<" tomorrow.">> >>,
     << <<"Ya ne khochu ">>, <<" segodnya.">>, <<"I not want ">>, <<" today.">> >>,
     << <<"Pozhaluysta, ne nado ">>, <<".">>, <<"Please, not need ">>, <<".">> >> >>

PREFIXED_MARK == <<" (prefixed)">>

CSV_HEADER == <<"root_tag", "russian", "english_gloss", "phrase_ru", "literal_en">>

SafeChars == {"a", "b", "c", "_", ".", "-"}

VARIABLES
  BASE_VERBS,      \* sequence of <<root, inf, gloss>>
  CURATED_DERIVS,  \* insertion-ordered dict: sequence of <<base_inf, pairs>>
  PREFIXES,        \* sequence of prefixes
  TARGET,          \* the target row count of main
  audio_mode,      \* "gtts" | "espeak" | "none", from the command line
  missing,         \* the dependency that is not installed, or "nothing"
  pc,              \* position of the run
  err,             \* the exception that ended the run, or "none"
  candidates,      \* build_candidate_forms: emitted triples
  cands,           \* main: result of build_candidate_forms
  rows,            \* main: selected rows
  seen,            \* main: seen headwords
  pos,             \* main: position of the first-pass for loop (1-based)
  i,               \* main: counter of the wraparound while loop
  csv_file,        \* lines of russian_verbs_1000.csv, <<>> while not written
  k,               \* build_anki: enumerate index of the row loop
  notes,           \* build_anki: notes added to the deck
  media_files,     \* build_anki: media_files
  media_dir,       \* build_anki: the media directory exists
  synthLog,        \* row indexes for which a synth_audio_* call was made
  apkg_file        \* <<>> while not written, else <<package>>

vars == <<BASE_VERBS, CURATED_DERIVS, PREFIXES, TARGET, audio_mode, missing,
          pc, err, candidates, cands, rows, seen, pos, i, csv_file, k, notes,
          media_files, media_dir, synthLog, apkg_file>>

tables == <<BASE_VERBS, CURATED_DERIVS, PREFIXES, TARGET, audio_mode, missing>>

\* ------------------------------------------------- build_candidate_forms
CuratedKeys == { CURATED_DERIVS[n][1] : n \in 1..Len(CURATED_DERIVS) }

Min(S) == CHOOSE x \in S : \A y \in S : x <= y

\* base_inf[:3]
Take3(s) == SubSeq(s, 1, IF Len(s) < 3 THEN Len(s) ELSE 3)

\* next((r for r, v, g in BASE_VERBS if v == base_inf), base_inf[:3] + "-")
RootOf(base_inf) ==
  LET hits == { n \in 1..Len(BASE_VERBS) : BASE_VERBS[n][2] = base_inf }
  IN  IF hits = {} THEN Take3(base_inf) \o <<"-">> ELSE BASE_VERBS[Min(hits)][1]

\* for v, g in pairs: candidates.append((root, v, g))
CuratedOfEntry(entry) ==
  LET root == RootOf(entry[1])
      pairs == entry[2]
  IN  [n \in 1..Len(pairs) |-> <<root, pairs[n][1], pairs[n][2]>>]

RECURSIVE CuratedFrom(_)
CuratedFrom(n) ==
  IF n > Len(CURATED_DERIVS) THEN <<>>
  ELSE CuratedOfEntry(CURATED_DERIVS[n]) \o CuratedFrom(n + 1)

\* add_pref, from the p-th prefix on
RECURSIVE add_pref_from(_, _, _, _)
add_pref_from(p, root, inf, gloss_base) ==
  IF p > Len(PREFIXES) THEN <<>>
  ELSE LET formed == PREFIXES[p] \o inf
       IN  (IF formed = inf THEN <<>>
            ELSE << <<root, formed, gloss_base \o PREFIXED_MARK>> >>)
           \o add_pref_from(p + 1, root, inf, gloss_base)

add_pref(root, inf, gloss_base) == add_pref_from(1, root, inf, gloss_base)

\* mutant: the curated-derivative check is dropped
SkipPrefixing_Never(inf) == FALSE

\* if inf in CURATED_DERIVS: continue
SkipPrefixing(inf) == inf \in CuratedKeys

RECURSIVE PrefixedFrom(_)
PrefixedFrom(n) ==
  IF n > Len(BASE_VERBS) THEN <<>>
  ELSE (IF SkipPrefixing(BASE_VERBS[n][2]) THEN <<>>
        ELSE add_pref(BASE_VERBS[n][1], BASE_VERBS[n][2], BASE_VERBS[n][3]))
       \o PrefixedFrom(n + 1)

RECURSIVE uniq_loop(_, _, _, _)
uniq_loop(cs, n, sn, uniq) ==
  IF n > Len(cs) THEN uniq
  ELSE IF cs[n][2] \notin sn
       THEN uniq_loop(cs, n + 1, sn \cup {cs[n][2]}, Append(uniq, cs[n]))
       ELSE uniq_loop(cs, n + 1, sn, uniq)

\* mutant: a later triple with the same headword replaces the earlier one
RECURSIVE uniq_keep_last(_, _, _)
uniq_keep_last(cs, n, uniq) ==
  IF n > Len(cs) THEN uniq
  ELSE LET hit == { m \in 1..Len(uniq) : uniq[m][2] = cs[n][2] }
       IN  IF hit = {} THEN uniq_keep_last(cs, n + 1, Append(uniq, cs[n]))
           ELSE uniq_keep_last(cs, n + 1,
                  [m \in 1..Len(uniq) |-> IF m \in hit THEN cs[n] ELSE uniq[m]])

Dedup_KeepLast(cs) == uniq_keep_last(cs, 1, <<>>)

\* lines 305-311
Dedup(cs) == uniq_loop(cs, 1, {}, <<>>)

\* ---------------------------------------------------------- make_phrases
\* str.format of a template with one {inf} slot
Format(pre, post, verb) == pre \o verb \o post

Template(idx) == PHRASE_TEMPLATES[(idx % Len(PHRASE_TEMPLATES)) + 1]

\* mutant: the template is chosen by the length of the verb
make_phrases_ByVerb(verb, idx) ==
  LET t == Template(Len(verb))
  IN  <<Format(t[1], t[2], verb), Format(t[3], t[4], verb)>>

make_phrases(verb, idx) ==
  LET t == Template(idx)
  IN  <<Format(t[1], t[2], verb), Format(t[3], t[4], verb)>>

NewRow(root, v, g, idx) ==
  LET ph == make_phrases(v, idx)
  IN  [root_tag |-> root, russian |-> v, english_gloss |-> g,
       phrase_ru |-> ph[1], literal_en |-> ph[2]]

\* ------------------------------------------------------------- safe_name
\* re.sub(r'[^0-9a-zA-Z<cyrillic>_.-]+', '_', s): each maximal run of
\* characters outside the class becomes one "_"
RECURSIVE safe_from(_, _, _)
safe_from(s, n, inRun) ==
  IF n > Len(s) THEN <<>>
  ELSE IF s[n] \in SafeChars THEN <<s[n]>> \o safe_from(s, n + 1, FALSE)
       ELSE (IF inRun THEN <<>> ELSE <<"_">>) \o safe_from(s, n + 1, TRUE)

safe_name(s) == safe_from(s, 1, FALSE)

\* ------------------------------------------------------------------ Init
Init ==
  /\ BASE_VERBS \in DistinctSeqs(BasePool, MaxBase)
  /\ CURATED_DERIVS \in DistinctSeqs(CuratedPool, MaxCurated)
  /\ PREFIXES \in DistinctSeqs(PrefixPool, MaxPrefixes)
  /\ TARGET \in 1..MaxN
  /\ audio_mode \in AudioModes
  /\ missing \in RequiredBy(audio_mode) \cup {"nothing"}
  /\ pc = "start"
  /\ err = "none"
  /\ candidates = <<>>
  /\ cands = <<>>
  /\ rows = <<>>
  /\ seen = {}
  /\ pos = 1
  /\ i = 0
  /\ csv_file = <<>>
  /\ k = 0
  /\ notes = <<>>
  /\ media_files = <<>>
  /\ media_dir = FALSE
  /\ synthLog = <<>>
  /\ apkg_file = <<>>

\* --------------------------------------------------------------- startup
\* mutant: genanki is imported only where it is used
StartupImports_Lazy == {"pandas"}

\* the modules imported at module level: pandas (line 50), genanki (52-55)
StartupImports == {"pandas", "genanki"}

ImportsFail ==
  /\ pc = "start"
  /\ missing \in StartupImports
  /\ pc' = "aborted"
  /\ err' = IF missing = "pandas" THEN "ImportError: pandas" ELSE "SystemExit"
  /\ UNCHANGED <<tables, candidates, cands, rows, seen, pos, i, csv_file, k,
                 notes, media_files, media_dir, synthLog, apkg_file>>

ImportsOk ==
  /\ pc = "start"
  /\ missing \notin StartupImports
  /\ pc' = "emit_base"
  /\ UNCHANGED <<tables, err, candidates, cands, rows, seen, pos, i, csv_file,
                 k, notes, media_files, media_dir, synthLog, apkg_file>>

\* ------------------------------------------ build_candidate_forms, steps
EmitBase ==
  /\ pc = "emit_base"
  /\ candidates' = candidates \o BASE_VERBS
  /\ pc' = "emit_curated"
  /\ UNCHANGED <<tables, err, cands, rows, seen, pos, i, csv_file, k, notes,
                 media_files, media_dir, synthLog, apkg_file>>

EmitCurated ==
  /\ pc = "emit_curated"
  /\ candidates' = candidates \o CuratedFrom(1)
  /\ pc' = "emit_prefixed"
  /\ UNCHANGED <<tables, err, cands, rows, seen, pos, i, csv_file, k, notes,
                 media_files, media_dir, synthLog, apkg_file>>

EmitPrefixed ==
  /\ pc = "emit_prefixed"
  /\ candidates' = candidates \o PrefixedFrom(1)
  /\ pc' = "dedup"
  /\ UNCHANGED <<tables, err, cands, rows, seen, pos, i, csv_file, k, notes,
                 media_files, media_dir, synthLog, apkg_file>>

ReturnUniq ==
  /\ pc = "dedup"
  /\ cands' = Dedup(candidates)
  /\ pc' = "first"
  /\ UNCHANGED <<tables, err, candidates, rows, seen, pos, i, csv_file, k,
                 notes, media_files, media_dir, synthLog, apkg_file>>

\* ------------------------------------------------------ main, selection
\* mutant: the headword is not recorded
SeenAdd_Forget(sn, v) == sn

\* seen.add(v)
SeenAdd(sn, v) == sn \cup {v}

\* mutant: off by one in the stop test
ReachedTarget_Late(n) == n > TARGET

\* if len(rows) >= 1000: break
ReachedTarget(n) == n >= TARGET

\* one iteration of the for loop of lines 412-425
FirstPassIter ==
  /\ pc = "first"
  /\ pos <= Len(cands)
  /\ LET root == cands[pos][1]
         v == cands[pos][2]
         g == cands[pos][3]
     IN  IF v \in seen
         THEN /\ pos' = pos + 1
              /\ UNCHANGED <<rows, seen, pc>>
         ELSE /\ seen' = SeenAdd(seen, v)
              /\ rows' = Append(rows, NewRow(root, v, g, Len(rows)))
              /\ IF ReachedTarget(Len(rows'))
                 THEN pc' = "wrap" /\ pos' = pos
                 ELSE pc' = "first" /\ pos' = pos + 1
  /\ i' = IF pc' = "wrap" THEN 0 ELSE i
  /\ UNCHANGED <<tables, err, candidates, cands, csv_file, k, notes,
                 media_files, media_dir, synthLog, apkg_file>>

\* the for loop runs out of candidates
FirstPassEnd ==
  /\ pc = "first"
  /\ pos > Len(cands)
  /\ pc' = "wrap"
  /\ i' = 0
  /\ UNCHANGED <<tables, err, candidates, cands, rows, seen, pos, csv_file, k,
                 notes, media_files, media_dir, synthLog, apkg_file>>

\* one iteration of the while loop of lines 429-441; the Python counter i is
\* unbounded, the model stops counting at MaxIter
WrapIter ==
  /\ pc = "wrap"
  /\ Len(rows) < TARGET
  /\ Len(cands) > 0
  /\ i < MaxIter
  /\ LET c == cands[(i % Len(cands)) + 1]
     IN  IF c[2] \notin seen
         THEN /\ seen' = SeenAdd(seen, c[2])
              /\ rows' = Append(rows, NewRow(c[1], c[2], c[3], Len(rows)))
         ELSE UNCHANGED <<rows, seen>>
  /\ i' = i + 1
  /\ UNCHANGED <<tables, pc, err, candidates, cands, pos, csv_file, k, notes,
                 media_files, media_dir, synthLog, apkg_file>>

\* i % len(cands) with an empty cands
WrapRaise ==
  /\ pc = "wrap"
  /\ Len(rows) < TARGET
  /\ Len(cands) = 0
  /\ pc' = "aborted"
  /\ err' = "ZeroDivisionError"
  /\ UNCHANGED <<tables, candidates, cands, rows, seen, pos, i, csv_file, k,
                 notes, media_files, media_dir, synthLog, apkg_file>>

WrapExit ==
  /\ pc = "wrap"
  /\ Len(rows) >= TARGET
  /\ pc' = "csv"
  /\ UNCHANGED <<tables, err, candidates, cands, rows, seen, pos, i, csv_file,
                 k, notes, media_files, media_dir, synthLog, apkg_file>>

\* ------------------------------------------------------------ main, CSV
CsvLine(r) == <<r.root_tag, r.russian, r.english_gloss, r.phrase_ru, r.literal_en>>

WriteCsv ==
  /\ pc = "csv"
  /\ csv_file' = <<CSV_HEADER>> \o [n \in 1..Len(rows) |-> CsvLine(rows[n])]
  /\ pc' = "anki_setup"
  /\ UNCHANGED <<tables, err, candidates, cands, rows, seen, pos, i, k, notes,
                 media_files, media_dir, synthLog, apkg_file>>

\* ------------------------------------------------------------ build_anki
\* lines 331-361
BuildAnkiSetup ==
  /\ pc = "anki_setup"
  /\ media_dir' = TRUE
  /\ media_files' = <<>>
  /\ notes' = <<>>
  /\ k' = 0
  /\ pc' = "anki"
  /\ UNCHANGED <<tables, err, candidates, cands, rows, seen, pos, i, csv_file,
                 synthLog, apkg_file>>

\* mutant: the disabled mode is not recognised
AudioEnabled_Always(mode) == TRUE

\* if audio_mode != "none"
AudioEnabled(mode) == mode # "none"

\* mutant: the package is written from inside the row loop
LoopDone_Early(n) == n >= 1 \/ n = Len(rows)

\* the for loop of line 363 has consumed every row
LoopDone(n) == n = Len(rows)

\* the exception a failing backend raises
BackendError(mode) == IF mode = "gtts" THEN "gTTSError" ELSE "CalledProcessError"

\* the exception a missing synthesis library raises at the call
MissingLibError(mode) ==
  IF mode = "gtts" THEN "ImportError: gtts" ELSE "FileNotFoundError: espeak-ng"

SynthErrors ==
  { BackendError(m) : m \in {"gtts", "espeak"} } \cup
  { MissingLibError(m) : m \in {"gtts", "espeak"} }

\* the library a synth_audio_* call of the mode needs
SynthLib(mode) == IF mode = "gtts" THEN "gtts" ELSE "espeak-ng"

\* f"{safe_name(ru)}_{i}.mp3" / ".wav"
FileName(ru, n, mode) ==
  safe_name(ru) \o <<"_", ToString(n), IF mode = "gtts" THEN ".mp3" ELSE ".wav">>

OutPath(fname) == <<"_media/">> \o fname

AudioHtml(fname) == <<"[sound:">> \o fname \o <<"]">>

\* genanki.Note(model, fields=[ru, en, phr_ru, lit_en, audio_html, tag], tags)
Note(r, audio_html) ==
  [fields |-> <<r.russian, r.english_gloss, r.phrase_ru, r.literal_en,
                audio_html, r.root_tag>>,
   tags |-> IF r.root_tag # <<>> THEN <<r.root_tag>> ELSE <<>>]

\* loop body with audio_mode == "none"
AnkiRowNoAudio ==
  /\ pc = "anki"
  /\ k < Len(rows)
  /\ ~AudioEnabled(audio_mode)
  /\ notes' = Append(notes, Note(rows[k + 1], <<>>))
  /\ k' = k + 1
  /\ UNCHANGED <<tables, pc, err, candidates, cands, rows, seen, pos, i,
                 csv_file, media_files, media_dir, synthLog, apkg_file>>

\* loop body, the synth_audio_* call returns
AnkiRowSynthOk ==
  /\ pc = "anki"
  /\ k < Len(rows)
  /\ AudioEnabled(audio_mode)
  /\ missing # SynthLib(audio_mode)
  /\ LET fname == FileName(rows[k + 1].russian, k, audio_mode)
     IN  /\ synthLog' = Append(synthLog, k)
         /\ media_files' = Append(media_files, OutPath(fname))
         /\ notes' = Append(notes, Note(rows[k + 1], AudioHtml(fname)))
  /\ k' = k + 1
  /\ UNCHANGED <<tables, pc, err, candidates, cands, rows, seen, pos, i,
                 csv_file, media_dir, apkg_file>>

\* mutant: the exception is caught and the loop goes on without audio
AnkiRowSynthFail_Caught ==
  /\ pc = "anki"
  /\ k < Len(rows)
  /\ AudioEnabled(audio_mode)
  /\ synthLog' = Append(synthLog, k)
  /\ err' = IF missing = SynthLib(audio_mode)
            THEN MissingLibError(audio_mode)
            ELSE BackendError(audio_mode)
  /\ notes' = Append(notes, Note(rows[k + 1], <<>>))
  /\ k' = k + 1
  /\ UNCHANGED <<tables, pc, candidates, cands, rows, seen, pos, i, csv_file,
                 media_files, media_dir, apkg_file>>

\* loop body, the synth_audio_* call raises: the import of gtts or the start
\* of espeak-ng fails, or the backend itself fails; nothing catches it
AnkiRowSynthFail ==
  /\ pc = "anki"
  /\ k < Len(rows)
  /\ AudioEnabled(audio_mode)
  /\ synthLog' = Append(synthLog, k)
  /\ pc' = "aborted"
  /\ err' = IF missing = SynthLib(audio_mode)
            THEN MissingLibError(audio_mode)
            ELSE BackendError(audio_mode)
  /\ UNCHANGED <<tables, candidates, cands, rows, seen, pos, i, csv_file, k,
                 notes, media_files, media_dir, apkg_file>>

\* lines 388-391; a package given no media_files carries none
WritePackage ==
  /\ pc = "anki"
  /\ LoopDone(k)
  /\ apkg_file' = <<[notes |-> notes, media_files |-> media_files]>>
  /\ pc' = "print"
  /\ UNCHANGED <<tables, err, candidates, cands, rows, seen, pos, i, csv_file,
                 k, notes, media_files, media_dir, synthLog>>

\* lines 454-457
PrintSummary ==
  /\ pc = "print"
  /\ pc' = "done"
  /\ UNCHANGED <<tables, err, candidates, cands, rows, seen, pos, i, csv_file,
                 k, notes, media_files, media_dir, synthLog, apkg_file>>

Next ==
  \/ ImportsFail
  \/ ImportsOk
  \/ EmitBase
  \/ EmitCurated
  \/ EmitPrefixed
  \/ ReturnUniq
  \/ FirstPassIter
  \/ FirstPassEnd
  \/ WrapIter
  \/ WrapRaise
  \/ WrapExit
  \/ WriteCsv
  \/ BuildAnkiSetup
  \/ AnkiRowNoAudio
  \/ AnkiRowSynthOk
  \/ AnkiRowSynthFail
  \/ WritePackage
  \/ PrintSummary

Spec == Init /\ [][Next]_vars

TypeOK ==
  /\ pc \in {"start", "emit_base", "emit_curated", "emit_prefixed", "dedup",
             "first", "wrap", "csv", "anki_setup", "anki", "print", "done",
             "aborted"}
  /\ Len(rows) <= Len(cands)
  /\ k \in 0..Len(rows)

\* ------------------------------------------------------------ properties
RowHeadwords == { rows[n].russian : n \in 1..Len(rows) }

RowTriple(r) == <<r.root_tag, r.russian, r.english_gloss>>

\* build_candidate_forms has returned
GenerationDone ==
  \/ pc \in {"first", "wrap", "csv", "anki_setup", "anki", "print", "done"}
  \/ pc = "aborted" /\ missing \notin {"pandas", "genanki"}

\* the two selection loops of main are over
SelectionDone ==
  \/ pc \in {"csv", "anki_setup", "anki", "print", "done"}
  \/ pc = "aborted" /\ csv_file # <<>>

Iota(n) == [m \in 1..n |-> m - 1]

\* C1: with fewer unique headwords than the target, selection terminates
\* with the rows it has. Its finite consequence: one full wraparound over a
\* non-empty candidate sequence is enough, the while loop never goes on to a
\* second one.
C1_SelectionTerminates ==
  (pc = "wrap" /\ Len(cands) > 0) => i <= Len(cands)

\* C2: at every point of the selection and afterwards the headwords of rows
\* are pairwise distinct and are exactly the seen set
C2_OneRowPerHeadword ==
  /\ \A m, n \in 1..Len(rows) : m # n => rows[m].russian # rows[n].russian
  /\ RowHeadwords = seen

C2_Witness ==
  /\ pc = "wrap"
  /\ i > 0
  /\ Len(rows) >= 3

\* C3: if cands has at least TARGET entries, then once the first pass is
\* left rows has exactly TARGET rows, the first TARGET candidates in order
C3_FirstNCandidates ==
  ((pc = "wrap" \/ SelectionDone) /\ Len(cands) >= TARGET) =>
     /\ Len(rows) = TARGET
     /\ \A n \in 1..TARGET : RowTriple(rows[n]) = cands[n]

C3_Witness ==
  /\ pc = "done"
  /\ TARGET >= 2
  /\ Len(cands) > TARGET
  /\ Len(rows) = TARGET

\* C4: the row at 0-based position n carries template n mod T filled with
\* its own headword, in both languages
C4_TemplateRoundRobin ==
  \A n \in 1..Len(rows) :
    LET T == Len(PHRASE_TEMPLATES)
        t == PHRASE_TEMPLATES[((n - 1) % T) + 1]
    IN  /\ rows[n].phrase_ru = t[1] \o rows[n].russian \o t[2]
        /\ rows[n].literal_en = t[3] \o rows[n].russian \o t[4]

C4_Witness ==
  /\ pc = "done"
  /\ Len(rows) > Len(PHRASE_TEMPLATES)
  /\ rows[Len(PHRASE_TEMPLATES) + 1].phrase_ru
       = PHRASE_TEMPLATES[1][1] \o rows[Len(PHRASE_TEMPLATES) + 1].russian
           \o PHRASE_TEMPLATES[1][2]

\* C5: a base headword with curated derivatives gets no mechanically
\* prefixed candidate, and each of its curated pairs is emitted with the
\* base entry's group tag
C5_NoPrefixingOfCurated ==
  GenerationDone =>
    \A b \in 1..Len(BASE_VERBS) :
      BASE_VERBS[b][2] \in CuratedKeys =>
        /\ \A p \in 1..Len(PREFIXES) : \A m \in 1..Len(candidates) :
             candidates[m] # <<BASE_VERBS[b][1], PREFIXES[p] \o BASE_VERBS[b][2],
                               BASE_VERBS[b][3] \o PREFIXED_MARK>>
        /\ \A e \in 1..Len(CURATED_DERIVS) :
             CURATED_DERIVS[e][1] = BASE_VERBS[b][2] =>
               \A q \in 1..Len(CURATED_DERIVS[e][2]) :
                 \E m \in 1..Len(candidates) :
                   candidates[m] = <<BASE_VERBS[b][1], CURATED_DERIVS[e][2][q][1],
                                     CURATED_DERIVS[e][2][q][2]>>

C5_Witness ==
  /\ GenerationDone
  /\ \E p \in 1..Len(PREFIXES) : PREFIXES[p] # <<>>
  /\ \E b \in 1..Len(BASE_VERBS) : BASE_VERBS[b][2] \in CuratedKeys
  /\ \E m \in 1..Len(candidates) :
       candidates[m][3][Len(candidates[m][3])] = PREFIXED_MARK[1]

\* the library the run needs is not installed
RequiredMissing ==
  \/ missing = "genanki"
  \/ AudioEnabled(audio_mode) /\ missing = SynthLib(audio_mode)

\* C6 as stated: a run that lacks the packaging library or the synthesis
\* library of its audio mode generates nothing and writes nothing
C6_FailsAtStartup ==
  RequiredMissing =>
    /\ candidates = <<>>
    /\ rows = <<>>
    /\ csv_file = <<>>
    /\ apkg_file = <<>>

\* C6 amended: only the packaging library is checked at startup; a missing
\* synthesis library stops the run at the first synthesize call, after
\* generation, selection and the CSV write, and before any note or package
C6_PackagingAtStartupSynthAtFirstCall ==
  /\ missing = "genanki" =>
       /\ candidates = <<>>
       /\ cands = <<>>
       /\ rows = <<>>
       /\ csv_file = <<>>
       /\ synthLog = <<>>
       /\ apkg_file = <<>>
  /\ (AudioEnabled(audio_mode) /\ missing = SynthLib(audio_mode)) =>
       /\ notes = <<>>
       /\ media_files = <<>>
       /\ apkg_file = <<>>
       /\ pc \notin {"print", "done"}
       /\ err = MissingLibError(audio_mode) =>
            /\ pc = "aborted"
            /\ synthLog = <<0>>
            /\ rows # <<>>
            /\ csv_file # <<>>
       /\ synthLog # <<>> => err = MissingLibError(audio_mode)

C6_Witness ==
  /\ pc = "aborted"
  /\ missing = "gtts"
  /\ audio_mode = "gtts"
  /\ err = "ImportError: gtts"
  /\ csv_file # <<>>
  /\ Len(rows) >= 2

\* C7: once a synthesize call has failed the run is aborted, the failing
\* row is the last one a call was made for, each earlier row was called once
\* and no package exists
C7_SynthFailureAborts ==
  err \in SynthErrors =>
    /\ pc = "aborted"
    /\ synthLog = Iota(k + 1)
    /\ Len(notes) = k
    /\ k < Len(rows)
    /\ apkg_file = <<>>

C7_Witness ==
  /\ err = "CalledProcessError"
  /\ pc = "aborted"
  /\ k >= 1
  /\ k + 1 < Len(rows)

\* the candidate sequence and the rows as functions of the seed tables and
\* TARGET alone
ExpectedCands == Dedup(BASE_VERBS \o CuratedFrom(1) \o PrefixedFrom(1))

ExpectedRows ==
  LET E == ExpectedCands
      len == IF TARGET < Len(E) THEN TARGET ELSE Len(E)
  IN  [n \in 1..len |->
         LET t == PHRASE_TEMPLATES[((n - 1) % Len(PHRASE_TEMPLATES)) + 1]
         IN  [root_tag |-> E[n][1], russian |-> E[n][2], english_gloss |-> E[n][3],
              phrase_ru |-> t[1] \o E[n][2] \o t[2],
              literal_en |-> t[3] \o E[n][2] \o t[4]]]

\* C8: rows (and the CSV lines) are determined by the seed tables whatever
\* the audio mode; with audio disabled no synthesize call is made, no media
\* is collected, every note has an empty audio field and the package holds
\* one note per row
C8_RowsIndependentOfAudio ==
  /\ Len(rows) <= Len(ExpectedRows)
  /\ rows = SubSeq(ExpectedRows, 1, Len(rows))
  /\ SelectionDone => rows = ExpectedRows
  /\ csv_file # <<>> =>
       /\ Len(csv_file) = Len(ExpectedRows) + 1
       /\ \A n \in 1..Len(ExpectedRows) :
            csv_file[n + 1] = <<ExpectedRows[n].root_tag, ExpectedRows[n].russian,
                                ExpectedRows[n].english_gloss,
                                ExpectedRows[n].phrase_ru,
                                ExpectedRows[n].literal_en>>
  /\ audio_mode = "none" =>
       /\ synthLog = <<>>
       /\ media_files = <<>>
       /\ \A n \in 1..Len(notes) : notes[n].fields[5] = <<>>
       /\ apkg_file # <<>> =>
            /\ Len(apkg_file[1].notes) = Len(rows)
            /\ apkg_file[1].media_files = <<>>
            /\ \A n \in 1..Len(rows) :
                 /\ apkg_file[1].notes[n].fields[1] = rows[n].russian
                 /\ apkg_file[1].notes[n].fields[5] = <<>>

C8_Witness ==
  /\ pc = "done"
  /\ audio_mode = "none"
  /\ Len(rows) >= 2
  /\ apkg_file # <<>>

IsPrefixed(c) == Len(c[3]) > 0 /\ c[3][Len(c[3])] = PREFIXED_MARK[1]

FirstOccurrences ==
  { n \in 1..Len(candidates) :
      \A m \in 1..(n - 1) : candidates[m][2] # candidates[n][2] }

\* C9: the returned sequence is the emitted sequence restricted to the first
\* occurrence of each headword, in emission order; the base entries are
\* emitted first and the prefixed forms last, so every base entry survives
C9_DedupKeepsFirst ==
  GenerationDone =>
    /\ Len(cands) = Cardinality(FirstOccurrences)
    /\ \A n \in 1..Len(cands) :
         \E x \in FirstOccurrences :
           /\ Cardinality({ y \in FirstOccurrences : y <= x }) = n
           /\ cands[n] = candidates[x]
    /\ \A m, n \in 1..Len(cands) : m # n => cands[m][2] # cands[n][2]
    /\ SubSeq(candidates, 1, Len(BASE_VERBS)) = BASE_VERBS
    /\ \A m, n \in 1..Len(candidates) :
         (m < n /\ IsPrefixed(candidates[m])) => IsPrefixed(candidates[n])
    /\ \A b \in 1..Len(BASE_VERBS) : \E n \in 1..Len(cands) : cands[n] = BASE_VERBS[b]

C9_Witness ==
  /\ pc = "first"
  /\ Len(cands) + 2 <= Len(candidates)
  /\ \E b \in 1..Len(BASE_VERBS) : \E m \in 1..Len(candidates) :
       /\ candidates[m][2] = BASE_VERBS[b][2]
       /\ candidates[m] # BASE_VERBS[b]
       /\ ~IsPrefixed(candidates[m])
  /\ \E m \in 1..Len(candidates) : IsPrefixed(candidates[m])

\* C10: with audio enabled the CSV is written before the first synthesize
\* call, the calls are for rows 0, 1, 2, ... once each, the package is
\* written only after the call for the last row, and a run a synthesis
\* failure aborted has its CSV but no package
C10_PipelineOrder ==
  /\ synthLog # <<>> => csv_file # <<>>
  /\ synthLog = Iota(Len(synthLog))
  /\ Len(synthLog) <= Len(rows)
  /\ (apkg_file # <<>> /\ audio_mode # "none") =>
       /\ synthLog = Iota(Len(rows))
       /\ Len(apkg_file[1].media_files) = Len(rows)
  /\ (pc = "aborted" /\ err \in SynthErrors) =>
       /\ csv_file # <<>>
       /\ apkg_file = <<>>

C10_Witness ==
  /\ pc = "done"
  /\ audio_mode = "espeak"
  /\ Len(rows) >= 3
  /\ synthLog = Iota(Len(rows))

====
